---- MODULE Spec2Model ----
(***************************************************************************)
(* Model of the billiger.de price checker: the engine                      *)
(* (BilligerPriceChecker: session lifecycle, pacing, search, page          *)
(* classification, extraction, price selection) and the two batch loops    *)
(* that drive it (process_excel_file and BilligerGUI._process).            *)
(*                                                                         *)
(* Optional values (Python None) are sequences of length 0 or 1.           *)
(* Prices are natural numbers (a fixed unit such as cents).                *)
(***************************************************************************)
EXTENDS Integers, Sequences, FiniteSets, TLC

(***************************************************************************)
(* Bounds of the model                                                     *)
(***************************************************************************)
MaxPrice == 2
MaxLen == 2
MaxCalls == 3
MaxCards == 2
MaxSelectors == 2
MaxLines == 2
MaxActions == 502
MaxRows == 2
MaxWorkers == 2
MaxPage == 13
MaxText == 3

(***************************************************************************)
(* Optional values                                                         *)
(***************************************************************************)
Null == <<>>
Some(v) == <<v>>
IsNull(o) == Len(o) = 0
Val(o) == o[1]

Range(s) == {s[i] : i \in 1..Len(s)}
SeqsUpTo(S, n) == UNION {[1..k -> S] : k \in 0..n}

Prices == 0..MaxPrice

(***************************************************************************)
(* Result construction and selection of the lowest price                   *)
(***************************************************************************)
\* _empty_result
EmptyResult ==
    [billiger_price |-> Null, ebay_price |-> Null,
     source |-> "None", status |-> "NOT FOUND"]

\* Python min() over a non-empty list
Min(s) == CHOOSE m \in Range(s) : \A x \in Range(s) : m <= x

RECURSIVE InsertByPrice(_, _)
\* insertion keeping the order of equal keys: c goes after every element
\* whose price is not larger
InsertByPrice_Unstable(c, sorted) ==
    IF sorted = <<>> THEN <<c>>
    ELSE IF c.price <= Head(sorted).price THEN <<c>> \o sorted
         ELSE <<Head(sorted)>> \o InsertByPrice(c, Tail(sorted))

InsertByPrice(c, sorted) ==
    IF sorted = <<>> THEN <<c>>
    ELSE IF c.price < Head(sorted).price THEN <<c>> \o sorted
         ELSE <<Head(sorted)>> \o InsertByPrice(c, Tail(sorted))

RECURSIVE SortByPrice(_)
\* candidates.sort(key=lambda x: x[1]): a stable sort by price
SortByPrice(cands) ==
    IF cands = <<>> THEN <<>>
    ELSE InsertByPrice(cands[Len(cands)], SortByPrice(SubSeq(cands, 1, Len(cands) - 1)))

pickLowest_BothFields(result, billiger, ebay) ==
    LET r1 == IF billiger # <<>>
              THEN [result EXCEPT !.billiger_price = Some(Min(billiger)),
                                  !.source = "billiger", !.status = "Found"]
              ELSE result
    IN  IF ebay # <<>> /\ (billiger = <<>> \/ Min(ebay) < Min(billiger))
        THEN [r1 EXCEPT !.ebay_price = Some(Min(ebay)), !.source = "ebay",
                        !.status = "Found"]
        ELSE r1

\* _pick_lowest
pickLowest(result, billiger, ebay) ==
    LET c1 == IF billiger # <<>>
              THEN <<[source |-> "billiger", price |-> Min(billiger)]>> ELSE <<>>
        candidates == IF ebay # <<>>
                      THEN c1 \o <<[source |-> "ebay", price |-> Min(ebay)]>> ELSE c1
    IN  IF candidates # <<>>
        THEN LET best == SortByPrice(candidates)[1]
                 key == IF best.source = "billiger" THEN "billiger_price" ELSE "ebay_price"
             IN  [[result EXCEPT ![key] = Some(best.price)]
                     EXCEPT !.source = best.source, !.status = "Found"]
        ELSE result

(***************************************************************************)
(* Exceptions: the kinds the browser driver raises, and which of them an   *)
(* except clause catches.                                                  *)
(***************************************************************************)
ExceptionKinds == {"TimeoutException", "WebDriverException"}

\* "except <handler>:" catches an exception of kind k
Catches(handler, k) ==
    \/ handler = "Exception"
    \/ handler = k

\* close: "except Exception: pass" around driver.quit()
CloseHandler_Timeout == "TimeoutException"
CloseHandler == "Exception"

\* _search: "except Exception as exc: ... return None"
SearchHandler_Timeout == "TimeoutException"
SearchHandler == "Exception"

\* _search: "except TimeoutException:" around the wait for results
WaitHandler == "TimeoutException"

\* _extract_search_results / _extract_product_page: "except Exception as exc"
ExtractHandler == "Exception"

(***************************************************************************)
(* Pacing                                                                  *)
(***************************************************************************)
ShortEvery == 100
LongEvery == 500

\* _human_delay on the counter value rc: the delay components of this
\* action and the counter after it
human_delay_AfterIncrement(rc) ==
    [short |-> (rc + 1) % ShortEvery = 0,
     long  |-> (rc + 1) % LongEvery = 0,
     base  |-> TRUE,
     count |-> rc + 1]

human_delay_NoIncrement(rc) ==
    [short |-> rc # 0 /\ rc % ShortEvery = 0,
     long  |-> rc # 0 /\ rc % LongEvery = 0,
     base  |-> TRUE,
     count |-> rc]

human_delay(rc) ==
    [short |-> rc # 0 /\ rc % ShortEvery = 0,
     long  |-> rc # 0 /\ rc % LongEvery = 0,
     base  |-> TRUE,
     count |-> rc + 1]

(***************************************************************************)
(* Page classification                                                     *)
(* A URL is the set of markers it contains, a page source the set of       *)
(* phrases it contains (lower-cased).                                      *)
(***************************************************************************)
UrlMarkers == {"/noresult", "/products/"}
Phrases == {"keine produkte gefunden", "leider keine"}

Classify_ProductFirst(url, src) ==
    IF "/products/" \in url THEN "ProductPage"
    ELSE IF "/noresult" \in url THEN "NoResults"
    ELSE IF "keine produkte gefunden" \in src \/ "leider keine" \in src THEN "NoResults"
    ELSE "SearchResults"

\* _search, the classification after the challenge check
Classify(url, src) ==
    IF "/noresult" \in url THEN "NoResults"
    ELSE IF "keine produkte gefunden" \in src \/ "leider keine" \in src THEN "NoResults"
    ELSE IF "/products/" \in url THEN "ProductPage"
    ELSE "SearchResults"

(***************************************************************************)
(* Extraction from a search-results page                                   *)
(* A card is [exists, ab, ebay, price]: ab is the sequence of prices read  *)
(* from the "ab ..." fragments of the sub-layouts that have one, in the    *)
(* order tried; ebay says whether an eBay logo is found; price is the      *)
(* sequence of prices read at the eBay price positions, in the order       *)
(* tried.  A reading of 0 is a fragment whose parsed price is rejected.    *)
(***************************************************************************)
PriceCap == 50000

RECURSIVE FirstValid(_, _)
\* the first reading p with "p and p > 0" (and p < cap where the code asks it)
FirstValid(readings, cap) ==
    IF readings = <<>> THEN Null
    ELSE IF Head(readings) > 0 /\ Head(readings) < cap THEN Some(Head(readings))
         ELSE FirstValid(Tail(readings), cap)

RECURSIVE FirstPositive(_)
\* the first reading p with "p and p > 0"
FirstPositive(readings) ==
    IF readings = <<>> THEN Null
    ELSE IF Head(readings) > 0 THEN Some(Head(readings))
         ELSE FirstPositive(Tail(readings))

\* _scan_billiger_card: the price appended, if any (the method returns True then)
scan_billiger_card(card) == FirstPositive(card.ab)

\* _scan_ebay_card: the price appended, if any
scan_ebay_card(card) ==
    IF ~card.ebay THEN Null ELSE FirstPositive(card.price)

CardAt(cards, idx) ==
    IF idx <= Len(cards) THEN cards[idx]
    ELSE [exists |-> FALSE, ab |-> <<>>, ebay |-> FALSE, price |-> <<>>]

\* one position examined by the loop: whether a card was there and the
\* candidate lists after it
Step(idx, exists, billiger, ebay) ==
    [idx |-> idx, exists |-> exists, billiger |-> billiger, ebay |-> ebay]

\* for idx in range(1, 13)
CardLimit == 12

EndsScan_Always(idx) == TRUE

\* "if idx > 1: break" when no card is found at position idx
EndsScan(idx) == idx > 1

RECURSIVE ScanCards(_, _, _, _, _)
\* the loop "for idx in range(1, 13)" of _extract_search_results; steps
\* lists the positions examined so far
ScanCards(cards, idx, billiger, ebay, steps) ==
    IF idx > CardLimit THEN [billiger |-> billiger, ebay |-> ebay, steps |-> steps]
    ELSE LET card == CardAt(cards, idx) IN
         IF ~card.exists
         THEN LET st == Append(steps, Step(idx, FALSE, billiger, ebay)) IN
              IF EndsScan(idx) THEN [billiger |-> billiger, ebay |-> ebay, steps |-> st]
              ELSE ScanCards(cards, idx + 1, billiger, ebay, st)
         ELSE LET b == scan_billiger_card(card) IN
              IF b # Null
              THEN LET st == Append(steps, Step(idx, TRUE, billiger \o b, ebay)) IN
                   IF ebay # <<>>
                   THEN [billiger |-> billiger \o b, ebay |-> ebay, steps |-> st]
                   ELSE ScanCards(cards, idx + 1, billiger \o b, ebay, st)
              ELSE LET e2 == ebay \o scan_ebay_card(card)
                       st == Append(steps, Step(idx, TRUE, billiger, e2))
                   IN  IF billiger # <<>> /\ e2 # <<>>
                       THEN [billiger |-> billiger, ebay |-> e2, steps |-> st]
                       ELSE ScanCards(cards, idx + 1, billiger, e2, st)

\* _scan_single_result on the non-indexed card [exists, ab, ebay, price]
scan_single_result(single, billiger, ebay) ==
    [billiger |-> billiger \o FirstPositive(single.ab),
     ebay |-> IF single.exists /\ single.ebay
              THEN ebay \o FirstPositive(single.price) ELSE ebay]

\* _extract_search_results (without the exception path)
extract_search_results(page) ==
    LET scanned == ScanCards(page.cards, 1, <<>>, <<>>, <<>>)
        lists == IF scanned.billiger = <<>> /\ scanned.ebay = <<>>
                 THEN scan_single_result(page.single, scanned.billiger, scanned.ebay)
                 ELSE scanned
    IN  pickLowest(EmptyResult, lists.billiger, lists.ebay)

(***************************************************************************)
(* Extraction from a product page                                          *)
(* page.selectors[k] is the list of elements the k-th selector matches     *)
(* (selectors past the end of the sequence match nothing).  An element is  *)
(* [stale, mentions, matches]: stale elements raise when read, mentions    *)
(* are the merchant names in the text or markup, matches the prices of     *)
(* the "<number> EUR" patterns of its text in order.  page.lines is the    *)
(* body text, a line being [words, matches].                               *)
(***************************************************************************)
\* the seven selectors of _extract_product_page
NumSelectors == 7

Excluded == {"monat", "mieten", "versand", "shipping", "lieferung"}

RECURSIVE ScanOffers(_, _, _)
\* "for offer in offers" of _extract_product_page
ScanOffers(offers, billiger, ebay) ==
    IF offers = <<>> THEN [billiger |-> billiger, ebay |-> ebay]
    ELSE LET offer == Head(offers)
             is_ebay == "ebay" \in offer.mentions
             is_billiger == "billiger" \in offer.mentions /\ ~is_ebay
             p == FirstValid(offer.matches, PriceCap)
         IN  IF offer.stale \/ (~is_ebay /\ ~is_billiger)
             THEN ScanOffers(Tail(offers), billiger, ebay)
             ELSE IF is_ebay
                  THEN ScanOffers(Tail(offers), billiger, ebay \o p)
                  ELSE ScanOffers(Tail(offers), billiger \o p, ebay)

RECURSIVE ScanSelectors(_, _)
\* "for selector in (...)" of _extract_product_page; selector is the
\* position of the selector the offers come from, 0 when none has any
ScanSelectors(selectors, k) ==
    IF k > NumSelectors THEN [billiger |-> <<>>, ebay |-> <<>>, selector |-> 0]
    ELSE LET offers == IF k <= Len(selectors) THEN selectors[k] ELSE <<>> IN
         IF offers = <<>> THEN ScanSelectors(selectors, k + 1)
         ELSE LET found == ScanOffers(offers, <<>>, <<>>) IN
              IF found.billiger # <<>> \/ found.ebay # <<>>
              THEN [billiger |-> found.billiger, ebay |-> found.ebay, selector |-> k]
              ELSE ScanSelectors(selectors, k + 1)

RECURSIVE AllValid(_, _)
\* every reading p with "p and 0 < p < 50_000", in order
AllValid(readings, cap) ==
    IF readings = <<>> THEN <<>>
    ELSE (IF Head(readings) > 0 /\ Head(readings) < cap THEN <<Head(readings)>> ELSE <<>>)
         \o AllValid(Tail(readings), cap)

RECURSIVE ScanLines(_, _, _, _)
\* the line-based fallback of _extract_product_page
ScanLines(lines, i, billiger, ebay) ==
    IF i > Len(lines) THEN [billiger |-> billiger, ebay |-> ebay]
    ELSE LET low == lines[i].words
             ctx == UNION {lines[j].words : j \in {i - 1, i, i + 1} \cap (1..Len(lines))}
             is_ebay == "ebay" \in ctx
             is_billiger == "billiger" \in ctx /\ ~is_ebay
             ps == AllValid(lines[i].matches, PriceCap)
         IN  IF low \cap Excluded # {} \/ (~is_ebay /\ ~is_billiger)
             THEN ScanLines(lines, i + 1, billiger, ebay)
             ELSE IF is_ebay
                  THEN ScanLines(lines, i + 1, billiger, ebay \o ps)
                  ELSE ScanLines(lines, i + 1, billiger \o ps, ebay)

product_offers_AlwaysLines(page) ==
    LET found == ScanSelectors(page.selectors, 1)
        lists == ScanLines(page.lines, 1, found.billiger, found.ebay)
    IN  [billiger |-> lists.billiger, ebay |-> lists.ebay,
         selector |-> found.selector, lines |-> TRUE]

\* the two candidate lists of _extract_product_page, with the selector they
\* come from and whether the line-based scan ran
product_offers(page) ==
    LET found == ScanSelectors(page.selectors, 1)
        fallback == found.billiger = <<>> /\ found.ebay = <<>>
        lists == IF fallback THEN ScanLines(page.lines, 1, <<>>, <<>>) ELSE found
    IN  [billiger |-> lists.billiger, ebay |-> lists.ebay,
         selector |-> found.selector, lines |-> fallback]

\* _extract_product_page (without the exception path)
extract_product_page(page) ==
    LET lists == product_offers(page)
    IN  pickLowest(EmptyResult, lists.billiger, lists.ebay)

(***************************************************************************)
(* The environment of one get_price call: what the browser does.           *)
(*   launch    outcome of _init_driver when it has to start a browser      *)
(*   after     state of the browser left behind by a failed landing        *)
(*   box1/box2 whether a visible, enabled search input is found at the     *)
(*             first attempt / after the re-navigation                     *)
(*   fail,kind the stage at which the browser raises, and the exception    *)
(*   url,src   the URL and page source after the submitted search          *)
(*   cards, single, selectors, lines   the content of that page            *)
(***************************************************************************)
Stages == {"renavigate", "type", "submit", "wait", "challenge", "classify", "extract"}

NoCard == [exists |-> FALSE, ab |-> <<>>, ebay |-> FALSE, price |-> <<>>]

DefaultEnv ==
    [launch |-> "ok", after |-> "up", box1 |-> TRUE, box2 |-> TRUE,
     fail |-> "none", kind |-> "WebDriverException",
     url |-> {}, src |-> {},
     cards |-> <<>>, single |-> NoCard, selectors |-> <<>>, lines |-> <<>>]

(***************************************************************************)
(* _search after the pacing delay.  alive: the browser process answers.    *)
(***************************************************************************)
NoSearch ==
    [ret |-> Null, raised |-> FALSE, failed |-> "none", timeout |-> FALSE,
     renav |-> FALSE, typed |-> FALSE, submitted |-> FALSE,
     url |-> {}, src |-> {}, pageState |-> "None", extractor |-> "none",
     navs |-> 0, found |-> <<>>]

\* an exception of kind k reaches the except clause of _search
SearchExcept(k, t) ==
    IF Catches(SearchHandler, k) THEN [t EXCEPT !.ret = Null]
    ELSE [t EXCEPT !.raised = TRUE]

\* _find_search_box: the first displayed and enabled input of the five
\* selectors; every exception is swallowed, so a dead browser shows none
find_search_box(alive, present) == alive /\ present

Unavailable_Never(found) == FALSE

\* "if not search_box" after the attempts recorded in found
Unavailable(found) == ~found[Len(found)]

\* navs counts the driver.get(BASE_URL) calls of _search, found lists the
\* outcome of each _find_search_box call
search(alive, e) ==
    LET box1 == find_search_box(alive, e.box1)
        t0 == [NoSearch EXCEPT !.renav = ~box1, !.found = <<box1>>,
                               !.navs = IF box1 THEN 0 ELSE 1]
        t1 == IF box1 THEN t0
              ELSE [t0 EXCEPT !.found = <<box1, find_search_box(alive, e.box2)>>]
        box == ~Unavailable(t1.found)
        t2 == [t1 EXCEPT !.typed = TRUE]
        t3 == [t2 EXCEPT !.submitted = TRUE]
        t4 == [t3 EXCEPT !.timeout = (e.fail = "wait")]
        state == Classify(e.url, e.src)
        t5 == [t4 EXCEPT !.url = e.url, !.src = e.src, !.pageState = state]
        t6 == [t5 EXCEPT !.extractor =
                  IF state = "ProductPage" THEN "product" ELSE "search"]
    IN  IF ~box1 /\ (~alive \/ e.fail = "renavigate")
        THEN SearchExcept(IF alive THEN e.kind ELSE "WebDriverException",
                          [t0 EXCEPT !.failed = "renavigate"])
        ELSE IF ~box THEN [t1 EXCEPT !.failed = "box"]
        ELSE IF e.fail = "type" THEN SearchExcept(e.kind, [t1 EXCEPT !.failed = "type"])
        ELSE IF e.fail = "submit" THEN SearchExcept(e.kind, [t2 EXCEPT !.failed = "submit"])
        ELSE IF e.fail = "wait" /\ ~Catches(WaitHandler, e.kind)
             THEN SearchExcept(e.kind, [t3 EXCEPT !.failed = "wait"])
        ELSE IF e.fail = "challenge"
             THEN SearchExcept(e.kind, [t4 EXCEPT !.failed = "challenge"])
        ELSE IF e.fail = "classify"
             THEN SearchExcept(e.kind, [t4 EXCEPT !.failed = "classify"])
        ELSE IF state = "NoResults" THEN t5
        ELSE IF e.fail = "extract"
             THEN IF Catches(ExtractHandler, e.kind)
                  THEN [t6 EXCEPT !.failed = "extract"]
                  ELSE SearchExcept(e.kind, [t6 EXCEPT !.failed = "extract"])
        ELSE IF state = "ProductPage"
             THEN [t6 EXCEPT !.ret = Some(extract_product_page(e))]
             ELSE [t6 EXCEPT !.ret = Some(extract_search_results(e))]

(***************************************************************************)
(* Session lifecycle                                                       *)
(***************************************************************************)
SessionActive_Never(d) == FALSE

\* _init_driver: "if self.driver is not None: return"
SessionActive(d) == d # "None"

init_driver_Swallow(d, b, n, e) ==
    IF SessionActive(d) \/ e.launch = "chrome_fails"
    THEN [driver |-> d, browser |-> b, sessions |-> n,
          raised |-> FALSE, launched |-> FALSE, landed |-> FALSE]
    ELSE [driver |-> "Chrome", browser |-> IF e.launch = "ok" THEN "up" ELSE e.after,
          sessions |-> n + 1,
          raised |-> FALSE, launched |-> TRUE, landed |-> e.launch = "ok"]

\* _init_driver on driver d, browser b and n open sessions
init_driver(d, b, n, e) ==
    IF SessionActive(d)
    THEN [driver |-> d, browser |-> b, sessions |-> n,
          raised |-> FALSE, launched |-> FALSE, landed |-> FALSE]
    ELSE IF e.launch = "chrome_fails"
    THEN [driver |-> d, browser |-> b, sessions |-> n,
          raised |-> TRUE, launched |-> FALSE, landed |-> FALSE]
    ELSE IF e.launch = "get_fails"
    THEN [driver |-> "Chrome", browser |-> e.after, sessions |-> n + 1,
          raised |-> TRUE, launched |-> TRUE, landed |-> FALSE]
    ELSE [driver |-> "Chrome", browser |-> "up", sessions |-> n + 1,
          raised |-> FALSE, launched |-> TRUE, landed |-> TRUE]

(***************************************************************************)
(* State                                                                   *)
(***************************************************************************)
VARIABLES
    driver,         \* self.driver: "None" or "Chrome"
    browser,        \* the browser process behind self.driver: "none", "up", "dead"
    request_count,  \* self.request_count
    sessions,       \* browser sessions opened by _init_driver and not yet released by close
    last,           \* what the last engine call did and returned
    pickIn,         \* arguments of the _pick_lowest call under test
    pickOut,        \* its return value
    mode,           \* the batch loop running: "none", "cli" or "gui"
    rows,           \* df: the rows of the spreadsheet
    start_row,      \* first row of the requested range (0-based)
    end_row,        \* end of the requested range (exclusive)
    save_interval,  \* save every save_interval processed rows
    idx,            \* the loop index
    pc,             \* position of the batch loop
    processed,      \* rows processed in this run
    is_running,     \* BilligerGUI.is_running
    cancelled,      \* Stop was pressed or the run was interrupted
    escaped,        \* an exception left the loop
    saved,          \* the rows last written to the output file, if any
    input,          \* argument of the pure function under test
    output,         \* its return value
    start_btn,      \* state of the Start button: "normal" or "disabled"
    stop_btn,       \* state of the Stop button
    threads,        \* the worker threads started by _start: position and rows left
    checker         \* self.checker: the worker that created the engine it refers to, or 0

engineVars == <<driver, browser, request_count, sessions, last>>
pickVars == <<pickIn, pickOut>>
batchVars == <<mode, rows, start_row, end_row, save_interval, idx, pc, processed,
               is_running, cancelled, escaped, saved>>

fnVars == <<input, output>>
guiVars == <<start_btn, stop_btn, threads, checker>>

vars == <<engineVars, pickVars, batchVars, fnVars, guiVars>>

NoCall ==
    [op |-> "none", before |-> "None", outcome |-> "none", result |-> Null,
     launched |-> FALSE, landed |-> FALSE, met |-> "no", reached |-> FALSE,
     short |-> FALSE, long |-> FALSE, count |-> 0, search |-> NoSearch]

\* BilligerPriceChecker.__init__
InitEngine ==
    /\ driver = "None"
    /\ browser = "none"
    /\ request_count = 0
    /\ sessions = 0
    /\ last = NoCall

InitPickIdle ==
    /\ pickIn = <<<<>>, <<>>>>
    /\ pickOut = Null

InitFnIdle ==
    /\ input = Null
    /\ output = Null

\* BilligerGUI.__init__ and _build_ui
InitGuiIdle ==
    /\ start_btn = "normal"
    /\ stop_btn = "disabled"
    /\ threads = <<>>
    /\ checker = 0

InitBatchIdle ==
    /\ mode = "none"
    /\ rows = <<>>
    /\ start_row = 0
    /\ end_row = 0
    /\ save_interval = 1
    /\ idx = 0
    /\ pc = "idle"
    /\ processed = 0
    /\ is_running = FALSE
    /\ cancelled = FALSE
    /\ escaped = FALSE
    /\ saved = Null

(***************************************************************************)
(* get_price in environment e, allowed while the counter is below cap      *)
(***************************************************************************)
get_price(e, cap) ==
    /\ request_count < cap
    /\ LET init == init_driver(driver, browser, sessions, e)
           hd == human_delay(request_count)
           s == search(init.browser = "up", e)
           launchFailed == driver = "None" /\ e.launch # "ok"
           call == [NoCall EXCEPT !.op = "get_price", !.before = driver,
                                  !.launched = init.launched, !.landed = init.landed,
                                  !.met = IF launchFailed THEN "launch"
                                          ELSE IF init.browser = "up" THEN "no"
                                          ELSE "session"]
       IN  /\ driver' = init.driver
           /\ browser' = init.browser
           /\ sessions' = init.sessions
           /\ IF init.raised
              THEN /\ request_count' = request_count
                   /\ last' = [call EXCEPT !.outcome = "raised", !.count = request_count]
              ELSE /\ request_count' = hd.count
                   /\ last' = [call EXCEPT
                          !.outcome = IF s.raised THEN "raised" ELSE "returned",
                          !.result = IF s.raised THEN Null
                                     ELSE IF s.ret = Null THEN Some(EmptyResult)
                                     ELSE s.ret,
                          !.reached = TRUE,
                          !.short = hd.short, !.long = hd.long, !.count = hd.count,
                          !.search = s]

\* close
close(quitFails, k) ==
    LET escapes == driver # "None" /\ quitFails /\ ~Catches(CloseHandler, k)
    IN  /\ driver' = IF escapes THEN driver ELSE "None"
        /\ browser' = IF escapes THEN browser ELSE "none"
        /\ sessions' = IF driver # "None" /\ ~escapes THEN sessions - 1 ELSE sessions
        /\ request_count' = request_count
        /\ last' = [NoCall EXCEPT !.op = "close", !.before = driver,
                                  !.outcome = IF escapes THEN "raised" ELSE "returned",
                                  !.met = IF driver # "None" /\ quitFails THEN "quit" ELSE "no",
                                  !.count = request_count]

(***************************************************************************)
(* The engine driven by an arbitrary caller                                *)
(***************************************************************************)
LaunchEnvs ==
    {[DefaultEnv EXCEPT !.launch = l, !.after = a] :
        l \in {"chrome_fails", "get_fails"}, a \in {"up", "dead"}}

StageEnvs ==
    {[DefaultEnv EXCEPT !.box1 = b1, !.box2 = b2, !.fail = f, !.kind = k] :
        b1 \in BOOLEAN, b2 \in BOOLEAN, f \in Stages \cup {"none"}, k \in ExceptionKinds}

ClassEnvs ==
    {[DefaultEnv EXCEPT !.url = u, !.src = s] : u \in SUBSET UrlMarkers, s \in SUBSET Phrases}

\* the cards, elements and lines the pages are built from
Card(ab, ebay, price) == [exists |-> TRUE, ab |-> ab, ebay |-> ebay, price |-> price]

CardAlphabet ==
    {NoCard, Card(<<>>, FALSE, <<>>),
     Card(<<1>>, FALSE, <<>>), Card(<<0, 2>>, FALSE, <<>>),
     Card(<<>>, TRUE, <<1>>), Card(<<>>, TRUE, <<0, 2>>), Card(<<0>>, TRUE, <<1>>)}

SingleAlphabet ==
    {NoCard, Card(<<1>>, FALSE, <<>>), Card(<<>>, TRUE, <<0, 1>>),
     Card(<<2>>, TRUE, <<1>>), Card(<<0>>, FALSE, <<>>)}

Element(mentions, matches) == [stale |-> FALSE, mentions |-> mentions, matches |-> matches]

Stale == [stale |-> TRUE, mentions |-> {}, matches |-> <<>>]

\* the lists of elements a selector may match
OfferLists ==
    {<<>>,
     <<Element({}, <<1>>)>>,
     <<Stale, Element({"ebay"}, <<1>>)>>,
     <<Element({"ebay", "billiger"}, <<1>>), Element({"billiger"}, <<2>>)>>,
     <<Element({"billiger"}, <<0, 1>>), Element({"ebay"}, <<PriceCap, 2>>)>>,
     <<Element({"billiger"}, <<2, 1>>), Element({"ebay"}, <<2>>)>>,
     <<Element({"ebay"}, <<0>>), Element({"billiger"}, <<PriceCap>>)>>}

Line(words, matches) == [words |-> words, matches |-> matches]

LineAlphabet ==
    {Line({}, <<1>>), Line({"ebay"}, <<2>>), Line({"billiger"}, <<2, 1>>),
     Line({"versand", "billiger"}, <<1>>), Line({"billiger"}, <<0, PriceCap>>)}

SearchPageEnvs ==
    {[DefaultEnv EXCEPT !.cards = cs] : cs \in SeqsUpTo(CardAlphabet, MaxCards)}
    \cup {[DefaultEnv EXCEPT !.cards = cs, !.single = sg] :
             cs \in {<<>>, <<Card(<<>>, FALSE, <<>>)>>}, sg \in SingleAlphabet}

ProductPageEnvs ==
    {[DefaultEnv EXCEPT !.url = {"/products/"}, !.selectors = ss] :
        ss \in SeqsUpTo(OfferLists, MaxSelectors)}
    \cup {[DefaultEnv EXCEPT !.url = {"/products/"}, !.selectors = ss, !.lines = ls] :
             ss \in {<<<<Element({}, <<1>>)>>>>},
             ls \in SeqsUpTo(LineAlphabet, MaxLines)}

Envs == LaunchEnvs \cup StageEnvs \cup ClassEnvs \cup SearchPageEnvs \cup ProductPageEnvs

GetPrice == \E e \in Envs : /\ get_price(e, MaxCalls)
                            /\ UNCHANGED <<pickVars, fnVars, guiVars, batchVars>>

Close == \E quitFails \in BOOLEAN, k \in ExceptionKinds :
            /\ close(quitFails, k)
            /\ UNCHANGED <<pickVars, fnVars, guiVars, batchVars>>

\* the browser process dies or hangs while the engine holds it
BrowserCrash ==
    /\ browser = "up"
    /\ browser' = "dead"
    /\ UNCHANGED <<driver, request_count, sessions, last, pickVars, fnVars, guiVars, batchVars>>

Init == InitEngine /\ InitPickIdle /\ InitBatchIdle /\ InitFnIdle /\ InitGuiIdle

Next == GetPrice \/ Close \/ BrowserCrash

Spec == Init /\ [][Next]_vars

(***************************************************************************)
(* Specification of _pick_lowest alone: the arguments are drawn from       *)
(* bounded lists, the action applies the function.                         *)
(***************************************************************************)
InitPick ==
    /\ InitEngine
    /\ InitBatchIdle
    /\ InitFnIdle
    /\ InitGuiIdle
    /\ pickIn \in SeqsUpTo(Prices, MaxLen) \X SeqsUpTo(Prices, MaxLen)
    /\ pickOut = Null

ApplyPickLowest ==
    /\ pickOut = Null
    /\ pickOut' = Some(pickLowest(EmptyResult, pickIn[1], pickIn[2]))
    /\ UNCHANGED <<pickIn, engineVars, batchVars, fnVars, guiVars>>

NextPick == ApplyPickLowest

SpecPick == InitPick /\ [][NextPick]_vars

(***************************************************************************)
(* Specification of the pacing: lookups on a few representative pages, up  *)
(* to MaxActions of them.                                                  *)
(***************************************************************************)
PacingEnvs ==
    {DefaultEnv,
     [DefaultEnv EXCEPT !.box1 = FALSE, !.box2 = FALSE],
     [DefaultEnv EXCEPT !.cards = <<Card(<<1>>, FALSE, <<>>)>>]}

PacedLookup == \E e \in PacingEnvs : /\ get_price(e, MaxActions)
                                     /\ UNCHANGED <<pickVars, fnVars, guiVars, batchVars>>

NextPacing == PacedLookup

SpecPacing == Init /\ [][NextPacing]_vars

(***************************************************************************)
(* Specification of the indexed scan alone: result pages of up to MaxPage  *)
(* positions, filled with one kind of card except for one position.        *)
(***************************************************************************)
CardKinds ==
    {NoCard, Card(<<>>, FALSE, <<>>), Card(<<1>>, FALSE, <<>>), Card(<<>>, TRUE, <<2>>)}

ScanPages ==
    {[i \in 1..n |-> IF i = p THEN k ELSE filler] :
        n \in 0..MaxPage, p \in 1..MaxPage, k \in CardKinds, filler \in CardKinds \ {NoCard}}

InitScan ==
    /\ InitEngine
    /\ InitPickIdle
    /\ InitBatchIdle
    /\ InitGuiIdle
    /\ input \in {Some(page) : page \in ScanPages}
    /\ output = Null

ApplyScanCards ==
    /\ output = Null
    /\ output' = Some(ScanCards(Val(input), 1, <<>>, <<>>, <<>>))
    /\ UNCHANGED <<input, engineVars, pickVars, batchVars, guiVars>>

NextScan == ApplyScanCards

SpecScan == InitScan /\ [][NextScan]_vars

(***************************************************************************)
(* Specification of the product page extraction alone.                     *)
(***************************************************************************)
LineLists ==
    {<<>>, <<Line({"billiger"}, <<2, 1>>)>>,
     <<Line({"ebay"}, <<2>>), Line({}, <<1>>)>>}

ProductPages ==
    {[selectors |-> ss, lines |-> ls] :
        ss \in SeqsUpTo(OfferLists, MaxSelectors), ls \in LineLists}

InitProduct ==
    /\ InitEngine
    /\ InitPickIdle
    /\ InitBatchIdle
    /\ InitGuiIdle
    /\ input \in {Some(page) : page \in ProductPages}
    /\ output = Null

ApplyProductOffers ==
    /\ output = Null
    /\ output' = Some(product_offers(Val(input)))
    /\ UNCHANGED <<input, engineVars, pickVars, batchVars, guiVars>>

NextProduct == ApplyProductOffers

SpecProduct == InitProduct /\ [][NextProduct]_vars

(***************************************************************************)
(* Price texts.  A text is a sequence of characters ("EUR" and "GBP" stand *)
(* for the euro and pound signs, " " for any whitespace), a parsed price   *)
(* the decimal number num / 10^scale with num not ending in 0 unless scale *)
(* is 0 (what float() makes of the matched digits).                        *)
(***************************************************************************)
Digits == <<"0", "1", "2", "3", "4", "5", "6", "7", "8", "9">>

IsDigit(c) == \E i \in 1..10 : Digits[i] = c

DigitVal(c) == (CHOOSE i \in 1..10 : Digits[i] = c) - 1

RECURSIVE ToNat(_)
ToNat(ds) ==
    IF ds = <<>> THEN 0
    ELSE 10 * ToNat(SubSeq(ds, 1, Len(ds) - 1)) + DigitVal(ds[Len(ds)])

RECURSIVE TrimZeros(_)
TrimZeros(ds) ==
    IF ds # <<>> /\ ds[Len(ds)] = "0" THEN TrimZeros(SubSeq(ds, 1, Len(ds) - 1)) ELSE ds

\* float(m.group(1)) for a match made of the digits whole, an optional
\* point and the digits frac
Float(whole, frac) ==
    LET f == TrimZeros(frac) IN [num |-> ToNat(whole \o f), scale |-> Len(f)]

\* the end of the longest run of digits of s that starts at position i
\* (i - 1 when there is no digit at i)
RECURSIVE RunEnd(_, _)
RunEnd(s, i) ==
    IF i <= Len(s) /\ IsDigit(s[i]) THEN RunEnd(s, i + 1) ELSE i - 1

\* s.replace(old, new) for single characters, new = "" deleting
Replace(s, old, new) ==
    LET kept == SelectSeq(s, LAMBDA c : c # old \/ new # "")
    IN  [i \in 1..Len(kept) |-> IF kept[i] = old THEN new ELSE kept[i]]

Removed_WordOnly == {"EUR", "$", "GBP", " "}

\* the character class [\u20ac$\u00a3\s*ab] of the re.sub in _parse_price
Removed == {"EUR", "$", "GBP", " ", "*", "a", "b"}

\* re.search(r"(\d+\.?\d*)", cleaned): the leftmost match, as a number
FirstNumber(cleaned) ==
    LET starts == {i \in 1..Len(cleaned) : IsDigit(cleaned[i])} IN
    IF starts = {} THEN Null
    ELSE LET i == CHOOSE k \in starts : \A j \in starts : k <= j
             e == RunEnd(cleaned, i)
             whole == SubSeq(cleaned, i, e)
             frac == IF e + 1 <= Len(cleaned) /\ cleaned[e + 1] = "."
                     THEN SubSeq(cleaned, e + 2, RunEnd(cleaned, e + 2))
                     ELSE <<>>
         IN  Some(Float(whole, frac))

\* _parse_price
parse_price(text) ==
    IF text = <<>> THEN Null
    ELSE LET cleaned == SelectSeq(text, LAMBDA c : c \notin Removed)
             chars == Range(cleaned)
             german == IF "," \in chars /\ "." \in chars
                       THEN Replace(Replace(cleaned, ".", ""), ",", ".")
                       ELSE IF "," \in chars THEN Replace(cleaned, ",", ".")
                       ELSE cleaned
         IN  FirstNumber(german)

(***************************************************************************)
(* Specification of _parse_price alone: every text of up to MaxText        *)
(* characters of a small alphabet, and the texts the documentation names.  *)
(***************************************************************************)
Chars == {"0", "1", "2", ",", ".", "a", "b", " ", "EUR", "*", "n"}

ParseExamples ==
    {<<"1", ".", "2", "3", "4", ",", "5", "6", " ", "EUR">>,
     <<"1", "9", ",", "9", "9">>,
     <<"a", "b", " ", "5", ",", "0", "0">>,
     <<"n", "/", "a">>}

Texts == SeqsUpTo(Chars, MaxText) \cup ParseExamples

InitParse ==
    /\ InitEngine
    /\ InitPickIdle
    /\ InitBatchIdle
    /\ InitGuiIdle
    /\ input \in {Some(text) : text \in Texts}
    /\ output = Null

ApplyParsePrice ==
    /\ output = Null
    /\ output' = Some(parse_price(Val(input)))
    /\ UNCHANGED <<input, engineVars, pickVars, batchVars, guiVars>>

NextParse == ApplyParsePrice

SpecParse == InitParse /\ [][NextParse]_vars

(***************************************************************************)
(* The price fragment of a search-results card: the text of the element    *)
(* _scan_billiger_card or _scan_ebay_card reads, and the price appended.   *)
(***************************************************************************)
\* re.search(r"(\d+[.,]\d{2})", text): the text of the leftmost match
PriceMatch(text) ==
    LET ends(i) == RunEnd(text, i)
        starts == {i \in 1..Len(text) :
                     /\ IsDigit(text[i])
                     /\ ends(i) + 3 <= Len(text)
                     /\ text[ends(i) + 1] \in {".", ","}
                     /\ IsDigit(text[ends(i) + 2])
                     /\ IsDigit(text[ends(i) + 3])}
    IN  IF starts = {} THEN Null
        ELSE LET i == CHOOSE k \in starts : \A j \in starts : k <= j
             IN  Some(SubSeq(text, i, ends(i) + 3))

\* m = re.search(...); p = self._parse_price(m.group(1)); "if p and p > 0"
fragment_price(text) ==
    LET m == PriceMatch(text) IN
    IF m = Null THEN Null
    ELSE LET p == parse_price(Val(m)) IN
         IF p # Null /\ Val(p).num > 0 THEN p ELSE Null

\* text.lower().startswith("ab")
StartsWithAb(text) == Len(text) >= 2 /\ text[1] \in {"a", "A"} /\ text[2] \in {"b", "B"}

\* the price a card contributes: _scan_billiger_card reads fragments that
\* start with "ab", _scan_ebay_card the price element of an eBay card
card_offer(kind, text) ==
    IF kind = "billiger" /\ ~StartsWithAb(text) THEN Null ELSE fragment_price(text)

Wholes ==
    {<<"5">>, <<"1", "9">>, <<"2", "4", "9">>, <<"1", ".", "2", "3", "4">>,
     <<"1", "2", ".", "0", "0", "0">>}

Cents == {<<"0", "0">>, <<"5", "6">>, <<"9", "9">>}

\* German-formatted prices as the cards display them
Fragments ==
    {[kind |-> "billiger", text |-> <<"a", "b", " ">> \o w \o <<",">> \o c \o sfx] :
        w \in Wholes, c \in Cents, sfx \in {<<>>, <<" ", "EUR">>}}
    \cup {[kind |-> "ebay", text |-> w \o <<",">> \o c \o sfx] :
             w \in Wholes, c \in Cents, sfx \in {<<>>, <<" ", "EUR">>}}

InitFragment ==
    /\ InitEngine
    /\ InitPickIdle
    /\ InitBatchIdle
    /\ InitGuiIdle
    /\ input \in {Some(f) : f \in Fragments}
    /\ output = Null

ApplyCardOffer ==
    /\ output = Null
    /\ output' = Some(card_offer(Val(input).kind, Val(input).text))
    /\ UNCHANGED <<input, engineVars, pickVars, batchVars, guiVars>>

NextFragment == ApplyCardOffer

SpecFragment == InitFragment /\ [][NextFragment]_vars

(***************************************************************************)
(* The batch loops: process_excel_file (mode "cli") and                    *)
(* BilligerGUI._process with the Start and Stop callbacks (mode "gui").    *)
(* A row is [ean, status, billiger, ebay, stamp]; the EAN cell is          *)
(* [na, nan, len]: missing, the text "nan", and the length of the trimmed  *)
(* text; stamp is 0 without timestamp, 1 for one of an earlier run and 2   *)
(* for one written by this run.  Row i of the data frame is rows[i + 1].   *)
(***************************************************************************)
MinEanLen == 8

Cell(na, nan, len) == [na |-> na, nan |-> nan, len |-> len]

Row(ean, status, billiger, stamp) ==
    [ean |-> ean, status |-> status, billiger |-> billiger, ebay |-> Null, stamp |-> stamp]

RowAlphabet ==
    {Row(Cell(FALSE, FALSE, 13), "NaN", Null, 0),
     Row(Cell(FALSE, FALSE, 8), "Found", Some(1), 1),
     Row(Cell(FALSE, FALSE, 7), "NaN", Null, 0),
     Row(Cell(FALSE, FALSE, 3), "Invalid EAN", Null, 1),
     Row(Cell(FALSE, TRUE, 3), "NaN", Null, 0),
     Row(Cell(TRUE, FALSE, 0), "NaN", Null, 0)}

Intervals == {1, 2}

\* ean = str(cell).strip() if pd.notna(cell) else ""
EanText(cell) ==
    IF cell.na THEN [nan |-> FALSE, len |-> 0] ELSE [nan |-> cell.nan, len |-> cell.len]

\* not ean or ean.lower() == "nan" or len(ean) < 8
InvalidEan(ean) == ean.len = 0 \/ ean.nan \/ ean.len < MinEanLen

HasStatus_Never(status) == FALSE

\* pd.notna(current) and current not in ("", "None")
HasStatus(status) == status \notin {"NaN", "", "None"}

MarkInvalid(row) == [row EXCEPT !.status = "Invalid EAN", !.stamp = 2]

WriteResult(row, res) ==
    [row EXCEPT !.billiger = res.billiger_price, !.ebay = res.ebay_price,
                !.status = res.status, !.stamp = 2]

\* end_row = min(start_row + limit, total) if limit > 0 else total
EndRow(start, limit, total) ==
    IF limit > 0
    THEN (IF start + limit < total THEN start + limit ELSE total)
    ELSE total

BatchEnvs ==
    {DefaultEnv,
     [DefaultEnv EXCEPT !.cards = <<Card(<<1>>, FALSE, <<>>)>>],
     [DefaultEnv EXCEPT !.fail = "type"],
     [DefaultEnv EXCEPT !.launch = "chrome_fails"],
     [DefaultEnv EXCEPT !.launch = "get_fails", !.after = "dead"]}

InitBatch ==
    /\ InitEngine
    /\ InitPickIdle
    /\ InitFnIdle
    /\ InitGuiIdle
    /\ mode \in {"cli", "gui"}
    /\ rows \in [1..MaxRows -> RowAlphabet]
    /\ start_row \in 0..1
    /\ \E limit \in 0..1 : end_row = EndRow(start_row, limit, MaxRows)
    /\ save_interval \in Intervals
    /\ idx = start_row
    /\ pc = IF mode = "cli" THEN "loop" ELSE "idle"
    /\ processed = 0
    /\ is_running = FALSE
    /\ cancelled = FALSE
    /\ escaped = FALSE
    /\ saved = Null

\* the head of the loop body for row idx: invalid codes are marked, rows
\* with a status are skipped, the others go on to the lookup
CheckRow(endPc) ==
    IF idx >= end_row
    THEN /\ pc' = endPc
         /\ UNCHANGED <<rows, idx, processed>>
    ELSE LET row == rows[idx + 1] IN
         IF InvalidEan(EanText(row.ean))
         THEN /\ rows' = [rows EXCEPT ![idx + 1] = MarkInvalid(row)]
              /\ processed' = processed + 1
              /\ idx' = idx + 1
              /\ pc' = pc
         ELSE IF HasStatus(row.status)
         THEN /\ idx' = idx + 1
              /\ UNCHANGED <<rows, processed, pc>>
         ELSE /\ pc' = "lookup"
              /\ UNCHANGED <<rows, idx, processed>>

\* res = checker.get_price(ean) and the rest of the loop body
LookupRow ==
    /\ pc = "lookup"
    /\ \E e \in BatchEnvs : get_price(e, MaxActions)
    /\ IF last'.outcome = "raised"
       THEN /\ escaped' = TRUE
            /\ pc' = "closing"
            /\ UNCHANGED <<rows, idx, processed, saved>>
       ELSE /\ rows' = [rows EXCEPT ![idx + 1] = WriteResult(rows[idx + 1], Val(last'.result))]
            /\ processed' = processed + 1
            /\ saved' = IF processed' % save_interval = 0 THEN Some(rows') ELSE saved
            /\ idx' = idx + 1
            /\ pc' = "loop"
            /\ escaped' = escaped
    /\ UNCHANGED <<mode, start_row, end_row, save_interval, is_running, cancelled, pickVars, fnVars, guiVars>>

\* process_excel_file: one pass through the head of the loop body
CliCheck ==
    /\ mode = "cli"
    /\ pc = "loop"
    /\ CheckRow("closing")
    /\ UNCHANGED <<engineVars, pickVars, fnVars, guiVars, mode, start_row, end_row, save_interval,
                   is_running, cancelled, escaped, saved>>

CliLookup == mode = "cli" /\ LookupRow

\* process_excel_file: KeyboardInterrupt inside the loop
CliInterrupt ==
    /\ mode = "cli"
    /\ pc \in {"loop", "lookup"}
    /\ pc' = "closing"
    /\ cancelled' = TRUE
    /\ UNCHANGED <<engineVars, pickVars, fnVars, guiVars, mode, rows, start_row, end_row, save_interval,
                   idx, processed, is_running, escaped, saved>>

\* process_excel_file: "finally: checker.close()", then the final save
\* unless an exception is propagating
CliClose ==
    /\ mode = "cli"
    /\ pc = "closing"
    /\ \E quitFails \in BOOLEAN, k \in ExceptionKinds : close(quitFails, k)
    /\ saved' = IF escaped THEN saved ELSE Some(rows)
    /\ pc' = "done"
    /\ UNCHANGED <<pickVars, fnVars, guiVars, mode, rows, start_row, end_row, save_interval, idx,
                   processed, is_running, cancelled, escaped>>

\* BilligerGUI._start
GuiStart ==
    /\ mode = "gui"
    /\ pc = "idle"
    /\ is_running' = TRUE
    /\ pc' = "loop"
    /\ UNCHANGED <<engineVars, pickVars, fnVars, guiVars, mode, rows, start_row, end_row, save_interval,
                   idx, processed, cancelled, escaped, saved>>

\* BilligerGUI._stop, possible while the Stop button is enabled
GuiStop ==
    /\ mode = "gui"
    /\ pc \in {"loop", "lookup", "save", "closing"}
    /\ is_running' = FALSE
    /\ cancelled' = TRUE
    /\ UNCHANGED <<engineVars, pickVars, fnVars, guiVars, mode, rows, start_row, end_row, save_interval,
                   idx, pc, processed, escaped, saved>>

\* BilligerGUI._process: "if not self.is_running: break", then the head of the body
GuiCheck ==
    /\ mode = "gui"
    /\ pc = "loop"
    /\ IF idx < end_row /\ ~is_running
       THEN /\ pc' = "save"
            /\ UNCHANGED <<rows, idx, processed>>
       ELSE CheckRow("save")
    /\ UNCHANGED <<engineVars, pickVars, fnVars, guiVars, mode, start_row, end_row, save_interval,
                   is_running, cancelled, escaped, saved>>

GuiLookup == mode = "gui" /\ LookupRow

\* BilligerGUI._process: the final _save_excel after the loop
GuiSave ==
    /\ mode = "gui"
    /\ pc = "save"
    /\ saved' = Some(rows)
    /\ pc' = "closing"
    /\ UNCHANGED <<engineVars, pickVars, fnVars, guiVars, mode, rows, start_row, end_row, save_interval,
                   idx, processed, is_running, cancelled, escaped>>

\* BilligerGUI._process: "finally: if self.checker: self.checker.close()"
GuiClose ==
    /\ mode = "gui"
    /\ pc = "closing"
    /\ \E quitFails \in BOOLEAN, k \in ExceptionKinds : close(quitFails, k)
    /\ is_running' = FALSE
    /\ pc' = "done"
    /\ UNCHANGED <<pickVars, fnVars, guiVars, mode, rows, start_row, end_row, save_interval, idx,
                   processed, cancelled, escaped, saved>>

NextBatch ==
    \/ CliCheck \/ CliLookup \/ CliInterrupt \/ CliClose
    \/ GuiStart \/ GuiStop \/ GuiCheck \/ GuiLookup \/ GuiSave \/ GuiClose

SpecBatch == InitBatch /\ [][NextBatch]_vars

(***************************************************************************)
(* The Start and Stop buttons with the worker threads they start:          *)
(* BilligerGUI._start, _stop and _process seen as threads.  A thread is    *)
(* [pc, left, on]: its position, the rows it still has to look up and the  *)
(* engine its get_price call in progress runs on (0 when none).  The       *)
(* buttons can only be pressed while enabled.                              *)
(***************************************************************************)
Thread(pos, left, on) == [pc |-> pos, left |-> left, on |-> on]

\* _start: self.start_btn.config(state=DISABLED); self.stop_btn.config(state=NORMAL)
StartButtons == [start |-> "disabled", stop |-> "normal"]

\* _process, finally: self.start_btn.config(state=NORMAL); self.stop_btn.config(state=DISABLED)
FinallyButtons == [start |-> "normal", stop |-> "disabled"]

guiIdle == <<engineVars, pickVars, fnVars, mode, rows, start_row, end_row, save_interval,
             idx, pc, processed, cancelled, escaped, saved>>

\* a press of the Start button: BilligerGUI._start
PressStart ==
    /\ start_btn = "normal"
    /\ Len(threads) < MaxWorkers
    /\ is_running' = TRUE
    /\ start_btn' = StartButtons.start
    /\ stop_btn' = StartButtons.stop
    /\ \E n \in 0..MaxRows : threads' = Append(threads, Thread("setup", n, 0))
    /\ UNCHANGED <<checker, guiIdle>>

\* a press of the Stop button: BilligerGUI._stop
PressStop ==
    /\ stop_btn = "normal"
    /\ is_running' = FALSE
    /\ UNCHANGED <<start_btn, stop_btn, threads, checker, guiIdle>>

\* _process up to the loop: reading the sheet may fail, otherwise a new engine
\* is stored in self.checker
WorkerSetup(t) ==
    /\ threads[t].pc = "setup"
    /\ \E ok \in BOOLEAN :
          IF ok
          THEN /\ checker' = t
               /\ threads' = [threads EXCEPT ![t].pc = "loop"]
          ELSE /\ checker' = checker
               /\ threads' = [threads EXCEPT ![t].pc = "closing"]
    /\ UNCHANGED <<start_btn, stop_btn, is_running, guiIdle>>

\* the head of the loop: the end of the range, the flag, then the call of
\* self.checker.get_price
WorkerCheck(t) ==
    /\ threads[t].pc = "loop"
    /\ threads' =
          IF threads[t].left = 0 \/ ~is_running
          THEN [threads EXCEPT ![t].pc = "save"]
          ELSE [threads EXCEPT ![t].pc = "lookup", ![t].on = checker]
    /\ UNCHANGED <<start_btn, stop_btn, is_running, checker, guiIdle>>

\* get_price returns and the row is written, or it raises
WorkerReturn(t) ==
    /\ threads[t].pc = "lookup"
    /\ \E raised \in BOOLEAN :
          threads' =
            IF raised
            THEN [threads EXCEPT ![t].pc = "closing", ![t].on = 0]
            ELSE [threads EXCEPT ![t].pc = "loop", ![t].on = 0,
                                 ![t].left = threads[t].left - 1]
    /\ UNCHANGED <<start_btn, stop_btn, is_running, checker, guiIdle>>

\* the final _save_excel and the completion dialog
WorkerSave(t) ==
    /\ threads[t].pc = "save"
    /\ threads' = [threads EXCEPT ![t].pc = "closing"]
    /\ UNCHANGED <<start_btn, stop_btn, is_running, checker, guiIdle>>

\* finally: self.checker.close() and self.is_running = False
WorkerClose(t) ==
    /\ threads[t].pc = "closing"
    /\ is_running' = FALSE
    /\ threads' = [threads EXCEPT ![t].pc = "enable"]
    /\ UNCHANGED <<start_btn, stop_btn, checker, guiIdle>>

\* finally: self.start_btn.config(state=tk.NORMAL)
WorkerEnableStart(t) ==
    /\ threads[t].pc = "enable"
    /\ start_btn' = FinallyButtons.start
    /\ threads' = [threads EXCEPT ![t].pc = "disable"]
    /\ UNCHANGED <<stop_btn, is_running, checker, guiIdle>>

\* finally: self.stop_btn.config(state=tk.DISABLED), the last statement
WorkerDisableStop(t) ==
    /\ threads[t].pc = "disable"
    /\ stop_btn' = FinallyButtons.stop
    /\ threads' = [threads EXCEPT ![t].pc = "ended"]
    /\ UNCHANGED <<start_btn, is_running, checker, guiIdle>>

Setup == \E t \in 1..Len(threads) : WorkerSetup(t)

Check == \E t \in 1..Len(threads) : WorkerCheck(t)

Return == \E t \in 1..Len(threads) : WorkerReturn(t)

Save == \E t \in 1..Len(threads) : WorkerSave(t)

Close_ == \E t \in 1..Len(threads) : WorkerClose(t)

EnableStart == \E t \in 1..Len(threads) : WorkerEnableStart(t)

DisableStop == \E t \in 1..Len(threads) : WorkerDisableStop(t)

NextGui ==
    \/ PressStart \/ PressStop \/ Setup \/ Check \/ Return \/ Save
    \/ Close_ \/ EnableStart \/ DisableStop

SpecGui == Init /\ [][NextGui]_vars

(***************************************************************************)
(* Properties                                                              *)
(***************************************************************************)
Returned == last.op = "get_price" /\ last.outcome = "returned"

\* C1: every Result returned by get_price has, when status is Found, exactly
\* one of the two price fields populated and source naming that field, and
\* otherwise both price fields and source empty.
C1_ResultShape ==
    Returned =>
        LET r == Val(last.result) IN
        /\ r.status \in {"Found", "NOT FOUND"}
        /\ r.status = "Found" =>
              \/ r.billiger_price # Null /\ r.ebay_price = Null /\ r.source = "billiger"
              \/ r.ebay_price # Null /\ r.billiger_price = Null /\ r.source = "ebay"
        /\ r.status # "Found" =>
              r.billiger_price = Null /\ r.ebay_price = Null /\ r.source = "None"

\* a product page with offers of both merchants was reached and the eBay one won
C1_Witness ==
    /\ Returned
    /\ last.search.pageState = "ProductPage"
    /\ Val(last.result).status = "Found"
    /\ Val(last.result).source = "ebay"

\* C2: _pick_lowest returns NotFound with empty price fields for two empty
\* lists, and otherwise Found with the smallest value over both lists in the
\* field of the list it came from, named by source; the billiger list wins
\* when the smallest value is in both lists.
C2_PickLowestReference ==
    pickOut # Null =>
        LET billiger == Range(pickIn[1])
            ebay == Range(pickIn[2])
            all == billiger \cup ebay
            r == Val(pickOut)
        IN  IF all = {}
            THEN r = [billiger_price |-> Null, ebay_price |-> Null,
                      source |-> "None", status |-> "NOT FOUND"]
            ELSE LET m == CHOOSE x \in all : \A y \in all : x <= y IN
                 /\ r.status = "Found"
                 /\ IF m \in billiger
                    THEN r.source = "billiger" /\ r.billiger_price = Some(m)
                         /\ r.ebay_price = Null
                    ELSE r.source = "ebay" /\ r.ebay_price = Some(m)
                         /\ r.billiger_price = Null

\* the two lists have the same minimum and the function has been applied
C2_Witness ==
    /\ pickOut # Null
    /\ pickIn[1] # <<>> /\ pickIn[2] # <<>>
    /\ Len(pickIn[1]) > 1
    /\ Min(pickIn[1]) = Min(pickIn[2])
    /\ Val(pickOut).source = "billiger"

\* C3: once a session is open, get_price never raises out of the search
\* stage, and a failure at any stage of the search (no search box, an
\* exception while navigating, typing, submitting, waiting, checking for a
\* challenge, classifying or extracting) gives a NotFound Result.
C3_SearchFailureIsNotFound ==
    (last.op = "get_price" /\ last.reached) =>
        /\ last.outcome = "returned"
        /\ last.search.failed # "none" => Val(last.result) = EmptyResult

\* the extraction raised on a session that was already open
C3_Witness ==
    /\ Returned
    /\ last.before = "Chrome"
    /\ last.search.failed = "extract"
    /\ Val(last.result).status = "NOT FOUND"

\* C4 as claimed: a get_price call that meets an unusable browser, at launch
\* or on a session it already holds, raises.
C4_UnusableBrowserRaises ==
    (last.op = "get_price" /\ last.met # "no") => last.outcome = "raised"

\* C4 amended: a get_price call raises when the browser cannot be launched or
\* the landing page cannot be loaded; a call that finds the browser of a held
\* session unusable returns a NotFound Result.
C4_OnlyLaunchFailureRaises ==
    last.op = "get_price" =>
        /\ last.met = "launch" => last.outcome = "raised" /\ last.result = Null
        /\ last.met = "session" =>
              last.outcome = "returned" /\ Val(last.result) = EmptyResult

\* the browser started but the landing page failed to load
C4_Witness ==
    /\ last.op = "get_price"
    /\ last.met = "launch"
    /\ last.launched
    /\ last.outcome = "raised"

\* C5: a get_price call made while a session is active launches no browser
\* and does not load the landing page, and the engine never has more than
\* one session open.
C5_OpenIdempotent ==
    /\ sessions <= 1
    /\ (driver = "None") = (sessions = 0)
    /\ (last.op = "get_price" /\ last.before # "None") =>
          ~last.launched /\ ~last.landed

\* a lookup ran on a session opened by an earlier call
C5_Witness ==
    /\ last.op = "get_price"
    /\ last.before = "Chrome"
    /\ last.reached
    /\ sessions = 1

\* C6: close never raises, leaves the engine without a session, and changes
\* nothing when there is no session.
C6_CloseNeverRaises ==
    /\ [](last.op = "close" =>
            last.outcome = "returned" /\ driver = "None" /\ sessions = 0)
    /\ [][(last'.op = "close" /\ last' # last /\ driver = "None") =>
            UNCHANGED <<driver, browser, request_count, sessions>>]_vars

\* close returned although quitting the browser failed
C6_Witness ==
    /\ last.op = "close"
    /\ last.met = "quit"
    /\ last.outcome = "returned"
    /\ driver = "None"

\* C7 as claimed: the 100th pacing action includes the short cooldown and
\* the 500th the long one.
C7_CooldownAt100And500 ==
    (last.op = "get_price" /\ last.reached) =>
        /\ last.count = ShortEvery => last.short
        /\ last.count = LongEvery => last.long

\* C7 amended: the 101st pacing action includes the short cooldown and the
\* 501st the long one (and the short one); the 100th and the 500th include
\* neither.
C7_CooldownAfter100And500 ==
    (last.op = "get_price" /\ last.reached) =>
        /\ last.count = ShortEvery + 1 => last.short /\ ~last.long
        /\ last.count = LongEvery + 1 => last.short /\ last.long
        /\ last.count \in {ShortEvery, LongEvery} => ~last.short /\ ~last.long

\* the 501st action has run with the long cooldown
C7_Witness ==
    /\ last.op = "get_price"
    /\ last.count = LongEvery + 1
    /\ last.long

\* C8: the request counter never decreases, grows by exactly one in every
\* get_price call that reaches the search stage and in no other step, and is
\* left alone by close.
C8_CounterMonotone ==
    [][/\ request_count' >= request_count
       /\ (last' # last /\ last'.op = "get_price" /\ last'.reached)
             => request_count' = request_count + 1
       /\ request_count' # request_count
             => last'.op = "get_price" /\ last'.reached /\ request_count' = request_count + 1
       /\ (last' # last /\ last'.op = "close") => request_count' = request_count
      ]_vars

\* a call re-opened the session after a close and the counter went on
C8_Witness ==
    /\ last.op = "get_price"
    /\ last.launched
    /\ last.reached
    /\ last.search.failed = "type"
    /\ request_count = MaxCalls

\* C9 as claimed: a URL with the product marker is always a ProductPage,
\* otherwise a no-results phrase in the text gives NoResults, and everything
\* else is SearchResults.
C9_ClassificationAsClaimed ==
    (Returned /\ last.search.pageState # "None") =>
        LET t == last.search IN
        /\ "/products/" \in t.url =>
              t.pageState = "ProductPage" /\ t.extractor = "product"
        /\ t.src \cap Phrases # {} => t.pageState = "NoResults"
        /\ ("/products/" \notin t.url /\ t.src \cap Phrases = {}) =>
              t.pageState = "SearchResults"

\* C9 amended: a URL with the no-result marker or a page text with a
\* no-results phrase is NoResults and nothing is extracted; otherwise a URL
\* with the product marker is a ProductPage and the product-page extraction
\* runs; otherwise the page is SearchResults and the card scan runs.
C9_ClassificationOrder ==
    (Returned /\ last.search.pageState # "None") =>
        LET t == last.search
            none == "/noresult" \in t.url \/ t.src \cap Phrases # {}
        IN  /\ none => t.pageState = "NoResults" /\ t.extractor = "none"
            /\ (~none /\ "/products/" \in t.url) =>
                  t.pageState = "ProductPage" /\ t.extractor = "product"
            /\ (~none /\ "/products/" \notin t.url) =>
                  t.pageState = "SearchResults" /\ t.extractor = "search"

\* a product URL whose page text says that nothing was found
C9_Witness ==
    /\ Returned
    /\ "/products/" \in last.search.url
    /\ "leider keine" \in last.search.src
    /\ last.search.pageState = "NoResults"

Terminal == {"Found", "NOT FOUND", "Invalid EAN"}

\* C10: when a batch loop that was not cancelled has ended, every row of the
\* requested range has a terminal status (Found, NOT FOUND or Invalid EAN),
\* also when get_price raised.
C10_EveryRowTerminal ==
    (pc = "done" /\ ~cancelled) =>
        \A i \in start_row..(end_row - 1) : rows[i + 1].status \in Terminal

\* a row of the sheet whose trimmed code is present, is not the text "nan",
\* has at least eight characters, and whose status cell is empty
Qualifies(row) ==
    /\ ~row.ean.na
    /\ row.ean.len > 0
    /\ ~row.ean.nan
    /\ row.ean.len >= 8
    /\ row.status \in {"NaN", ""}

\* C11: in both batch loops get_price is invoked, and a browser launched,
\* only for a row of the requested range whose trimmed code is non-empty, not
\* "nan" and at least 8 characters long and that carries no status from an
\* earlier run; for every other row the engine is not invoked.
C11_LookupOnlyForQualifyingRows ==
    [][((last' # last /\ last'.op = "get_price") \/ (driver = "None" /\ driver' # "None")
            \/ sessions' > sessions)
          => /\ pc = "lookup"
             /\ idx >= start_row /\ idx < end_row
             /\ Qualifies(rows[idx + 1])]_vars

\* a run that looked one row up and passed over two others, one with a bad
\* code and one with a status, without a second lookup
C11_Witness ==
    /\ pc = "done"
    /\ request_count = 1
    /\ \E i \in 1..MaxRows : rows[i].stamp = 2 /\ rows[i].status \in {"Found", "NOT FOUND"}
    /\ \E i \in 1..MaxRows : ~Qualifies(rows[i])

\* C12: when Stop is pressed while the GUI worker runs, the lookup in flight
\* completes and its Result is written to its row, no lookup is started once
\* the worker has read the flag, and the worker then saves the output and
\* closes the session.
C12_StopCompletesSavesCloses ==
    /\ [][(mode = "gui" /\ ~is_running /\ pc = "lookup" /\ pc' # "lookup")
             => pc' = "loop" /\ rows'[idx + 1].stamp = 2]_vars
    /\ [][(mode = "gui" /\ ~is_running /\ pc = "loop")
             => pc' \in {"loop", "save"} /\ idx' = idx]_vars
    /\ []((mode = "gui" /\ cancelled /\ pc = "done")
             => saved = Some(rows) /\ driver = "None")

\* C13: when get_price raises during a batch run, the loop (CLI and GUI
\* alike) aborts and the output spreadsheet written before it finishes holds
\* every row resolved so far.
C13_AbortStillSaves ==
    (pc = "done" /\ escaped) =>
        \A i \in 1..MaxRows :
            rows[i].stamp = 2 => ~IsNull(saved) /\ Val(saved)[i] = rows[i]

\* C20: a batch run leaves every row that carries a non-empty status from an
\* earlier run completely unchanged (billiger, eBay, Status and Timestamp
\* cells) and does not count it as processed.
C20_StatusRowsUntouched ==
    [][/\ \A i \in 1..MaxRows :
            (rows[i].stamp = 1 /\ rows[i].status \notin {"NaN", ""}) => rows'[i] = rows[i]
       /\ (/\ pc \in {"loop", "lookup"} /\ idx < end_row
           /\ rows[idx + 1].stamp = 1 /\ rows[idx + 1].status \notin {"NaN", ""})
             => processed' = processed]_vars

\* the worker threads that have not finished
Running == {t \in 1..Len(threads) : threads[t].pc # "ended"}

\* C14: under every interleaving of Start and Stop presses with the worker
\* threads, at most one worker is running at a time and no two get_price
\* calls are in progress at once on the same engine.
C14_OneWorkerOneLookup ==
    /\ Cardinality(Running) <= 1
    /\ \A t, u \in 1..Len(threads) :
          (t # u /\ threads[t].pc = "lookup" /\ threads[u].pc = "lookup")
             => threads[t].on # threads[u].on

\* C16: within one lookup, when the first location finds no visible and
\* enabled search input the engine navigates to the landing page and locates
\* the input exactly once more (not at all when that navigation itself
\* raises, which ends the lookup NotFound); an input still absent ends the
\* lookup NotFound with nothing typed or submitted; a lookup never performs
\* more than one such re-navigation, and none when the input is found at
\* first.
C16_RetryAtMostOnce ==
    (last.op = "get_price" /\ last.reached) =>
        LET s == last.search IN
        /\ s.navs <= 1
        /\ s.found[1] => s.navs = 0 /\ Len(s.found) = 1
        /\ ~s.found[1] =>
              /\ s.navs = 1
              /\ Len(s.found) = IF s.failed = "renavigate" THEN 1 ELSE 2
        /\ ~s.found[Len(s.found)] =>
              /\ Returned /\ Val(last.result).status = "NOT FOUND"
              /\ ~s.typed /\ ~s.submitted

\* the input was absent before and after the one re-navigation
C16_Witness ==
    /\ Returned
    /\ last.search.found = <<FALSE, FALSE>>
    /\ last.search.navs = 1
    /\ last.search.failed = "box"
    /\ Val(last.result).status = "NOT FOUND"

\* C17: the indexed scan examines positions 1, 2, ... in order and at most
\* 12 of them; it examines no further position once both a billiger and an
\* eBay candidate are collected or once a position after the first has no
\* card, and ends before position 12 for these reasons only (a missing card
\* at position 1 does not end it); when it ends, at least one of the two
\* candidate lists holds at most one price.
C17_IndexedScan ==
    output # Null =>
        LET r == Val(output)
            st == r.steps
            cards == Val(input)
            n == Len(st)
            Both(k) == st[k].billiger # <<>> /\ st[k].ebay # <<>>
        IN  /\ n >= 1 /\ n <= 12
            /\ \A k \in 1..n :
                  /\ st[k].idx = k
                  /\ st[k].exists = (k <= Len(cards) /\ cards[k].exists)
            /\ \A k \in 1..(n - 1) : ~Both(k) /\ (k > 1 => st[k].exists)
            /\ n < 12 => Both(n) \/ (n > 1 /\ ~st[n].exists)
            /\ r.billiger = st[n].billiger /\ r.ebay = st[n].ebay
            /\ Len(r.billiger) <= 1 \/ Len(r.ebay) <= 1

\* a page of more than 12 positions without a card at position 1: the scan
\* went on to position 12 and collected several eBay prices
C17_Witness ==
    /\ output # Null
    /\ Len(Val(input)) > 12
    /\ ~Val(output).steps[1].exists
    /\ Len(Val(output).steps) = 12
    /\ Len(Val(output).ebay) > 1

\* what an element is counted as: "ebay" when its text or markup mentions
\* ebay, else "billiger" when it mentions billiger
OfferKind(el) ==
    IF el.stale THEN "none"
    ELSE IF "ebay" \in el.mentions THEN "ebay"
    ELSE IF "billiger" \in el.mentions THEN "billiger"
    ELSE "none"

\* the first price of an element within (0, 50000), if any
OfferPrice(el) ==
    LET ok == {i \in 1..Len(el.matches) : el.matches[i] > 0 /\ el.matches[i] < 50000}
    IN  IF ok = {} THEN Null
        ELSE Some(el.matches[CHOOSE i \in ok : \A j \in ok : i <= j])

\* the prices the elements of one selector contribute to one source, in order
Contributions(els, kind) ==
    LET yielding == SelectSeq(els, LAMBDA el : OfferKind(el) = kind /\ OfferPrice(el) # Null)
    IN  [i \in 1..Len(yielding) |-> Val(OfferPrice(yielding[i]))]

Yields(els) == Contributions(els, "ebay") # <<>> \/ Contributions(els, "billiger") # <<>>

\* C18: on a product page the offers come from exactly one selector, the
\* first of the seven in priority order whose elements yield at least one
\* offer; each element contributes at most one price (its first valid one),
\* an element mentioning both ebay and billiger counts as eBay, and the
\* line-based scan of the body text runs only when no selector yielded an
\* offer.
C18_OneSelector ==
    output # Null =>
        LET page == Val(input)
            out == Val(output)
            yielding == {k \in 1..Len(page.selectors) : k <= 7 /\ Yields(page.selectors[k])}
        IN  /\ out.lines <=> yielding = {}
            /\ yielding = {} => out.selector = 0
            /\ yielding # {} =>
                  /\ out.selector \in yielding
                  /\ \A k \in yielding : out.selector <= k
                  /\ out.ebay = Contributions(page.selectors[out.selector], "ebay")
                  /\ out.billiger = Contributions(page.selectors[out.selector], "billiger")
                  /\ Len(out.ebay) + Len(out.billiger) <= Len(page.selectors[out.selector])

\* the first selector matched elements without an offer, the second one
\* holds an element mentioning both names, and the page has priced lines
C18_Witness ==
    /\ output # Null
    /\ Val(output).selector = 2
    /\ ~Val(output).lines
    /\ Val(input).selectors[1] # <<>>
    /\ Val(input).lines # <<>>
    /\ \E i \in 1..Len(Val(input).selectors[2]) :
          {"ebay", "billiger"} \subseteq Val(input).selectors[2][i].mentions
    /\ Val(output).ebay # <<>>

RECURSIVE RemoveWord(_)
\* the text without the occurrences of the word "ab"
RemoveWord(s) ==
    IF s = <<>> THEN <<>>
    ELSE IF Len(s) >= 2 /\ s[1] = "a" /\ s[2] = "b" THEN RemoveWord(SubSeq(s, 3, Len(s)))
    ELSE <<s[1]>> \o RemoveWord(Tail(s))

\* the number the claim describes: currency symbols, whitespace and the
\* word "ab" removed, the separators converted, the first decimal number read
ClaimedPrice(text) ==
    LET cleaned == RemoveWord(SelectSeq(text, LAMBDA c : c \notin {"EUR", "$", "GBP", " "}))
        chars == Range(cleaned)
        german == IF "," \in chars /\ "." \in chars
                  THEN Replace(Replace(cleaned, ".", ""), ",", ".")
                  ELSE IF "," \in chars THEN Replace(cleaned, ",", ".")
                  ELSE cleaned
    IN  FirstNumber(german)

\* C15: for every input text parsePrice returns the number obtained by
\* removing currency symbols, whitespace and the word "ab", converting the
\* separators (both present: dots deleted, comma to point; only a comma:
\* comma to point) and reading the first decimal number, and null when no
\* number is present.
C15_ParsePriceAsClaimed ==
    output # Null => Val(output) = ClaimedPrice(Val(input))

\* C15, amended: for every input text parsePrice returns the number obtained
\* by removing every currency symbol, whitespace character, asterisk and
\* every letter a and b wherever they occur, converting the separators and
\* reading the first decimal number, and null when no number is present; so
\* "1.234,56 EUR" gives 1234.56, "19,99" gives 19.99, "ab 5,00" gives 5 and
\* "" and "n/a" give null.
C15_ParsePriceStripsCharacters ==
    output # Null =>
        LET text == Val(input)
            price == Val(output)
        IN  /\ price = ClaimedPrice(SelectSeq(text, LAMBDA c : c \notin {"*", "a", "b"}))
            /\ price = Null <=> \A i \in 1..Len(text) : ~IsDigit(text[i])
            /\ text = <<"1", ".", "2", "3", "4", ",", "5", "6", " ", "EUR">>
                  => price = Some([num |-> 123456, scale |-> 2])
            /\ text = <<"1", "9", ",", "9", "9">> => price = Some([num |-> 1999, scale |-> 2])
            /\ text = <<"a", "b", " ", "5", ",", "0", "0">> => price = Some([num |-> 5, scale |-> 0])
            /\ text \in {<<>>, <<"n", "/", "a">>} => price = Null

\* a price with thousands separator, decimal comma and currency symbol
C15_Witness ==
    /\ output # Null
    /\ Val(input) = <<"1", ".", "2", "3", "4", ",", "5", "6", " ", "EUR">>
    /\ Val(output) = Some([num |-> 123456, scale |-> 2])

\* C19: for every search-results card whose price fragment shows a
\* German-formatted price, also one with a thousands separator such as
\* "ab 1.234,56 EUR", the offer recorded for the card equals the value
\* parsePrice gives for the displayed price.
C19_CardOfferIsDisplayedPrice ==
    output # Null => Val(output) = parse_price(Val(input).text)

====
